---------------------------- MODULE Spec2Model ----------------------------
(***************************************************************************)
(* Model of the blog generator backend (src/main.py, src/schemas.py):      *)
(* the deterministic content synthesizer, the POST /api/generate handler   *)
(* and the GET /api/posts handler over the "blogpost" collection.          *)
(*                                                                         *)
(* A Python str is a sequence of one-character strings, so that strip(),   *)
(* lower(), f-string concatenation and join() are computed character by    *)
(* character.  An Optional value is [some |-> BOOLEAN, v |-> value].       *)
(*                                                                         *)
(* database.py (create_document, get_documents) is not among the sources:  *)
(* the two are modelled from the DocumentStore gateway contract.           *)
(* list.sort is modelled as CPython sorts a list shorter than 64 elements  *)
(* (one run, then binary insertion), including the state it leaves the     *)
(* list in when a comparison raises.                                       *)
(***************************************************************************)
EXTENDS Integers, Sequences, FiniteSets

VARIABLES
    store,      \* the "blogpost" collection, documents in insertion order
    now,        \* clock reading stamped on the latest document; later
                \* documents are stamped no earlier
    request,    \* the request handled last
    response,   \* the response (or HTTP error) produced for it
    retrieved   \* _id of each document get_documents handed to the last
                \* list_posts, in retrieval order

vars == <<store, now, request, response, retrieved>>

\* ---------------------------------------------------------------- bounds
\* Largest number of documents the collection holds under Spec.
MaxPosts == 3
\* Largest number of documents the collection holds under SpecGen.
MaxGenPosts == 1
\* Largest number of documents written before the service started.
MaxLegacy == 2
\* Latest clock reading.
MaxClock == 2
\* Largest explicit ?limit= value tried besides the default.
MaxLimit == 1

\* ------------------------------------------------------- string literals
\* Headings of generate_outline (src/main.py:78-89).
s_Introduction == <<"I", "n", "t", "r", "o", "d", "u", "c", "t", "i", "o", "n">>
s_Why == <<"W", "h", "y", " ">>
s_Matters == <<" ", "M", "a", "t", "t", "e", "r", "s">>
s_KeyPrinciplesOf ==
    <<"K", "e", "y", " ", "P", "r", "i", "n", "c", "i", "p", "l", "e", "s", " ", "o", "f", " ">>
s_PracticalTipsFor ==
    <<"P", "r", "a", "c", "t", "i", "c", "a", "l", " ", "T", "i", "p", "s", " ", "f", "o", "r",
      " ">>
s_CommonMistakes ==
    <<"C", "o", "m", "m", "o", "n", " ", "M", "i", "s", "t", "a", "k", "e", "s", " ", "t", "o",
      " ", "A", "v", "o", "i", "d">>
s_Conclusion == <<"C", "o", "n", "c", "l", "u", "s", "i", "o", "n">>
s_CaseStudy == <<"C", "a", "s", "e", " ", "S", "t", "u", "d", "y", ":", " ">>
s_InAction == <<" ", "i", "n", " ", "A", "c", "t", "i", "o", "n">>
s_Resources ==
    <<"R", "e", "s", "o", "u", "r", "c", "e", "s", " ", "&", " ", "N", "e", "x", "t", " ", "S",
      "t", "e", "p", "s">>

\* Tone names and title prefixes of generate_title (src/main.py:94-99).
s_Professional == <<"P", "r", "o", "f", "e", "s", "s", "i", "o", "n", "a", "l">>
s_Friendly == <<"F", "r", "i", "e", "n", "d", "l", "y">>
s_Technical == <<"T", "e", "c", "h", "n", "i", "c", "a", "l">>
s_Persuasive == <<"P", "e", "r", "s", "u", "a", "s", "i", "v", "e">>
s_PrefixProfessional ==
    <<"A", " ", "P", "r", "a", "c", "t", "i", "c", "a", "l", " ", "G", "u", "i", "d", "e", " ",
      "t", "o">>
s_PrefixFriendly ==
    <<"G", "e", "t", "t", "i", "n", "g", " ", "S", "t", "a", "r", "t", "e", "d", " ", "w", "i",
      "t", "h">>
s_PrefixTechnical ==
    <<"I", "n", "-", "D", "e", "p", "t", "h", " ", "L", "o", "o", "k", " ", "a", "t">>
s_PrefixPersuasive ==
    <<"W", "h", "y", " ", "Y", "o", "u", " ", "S", "h", "o", "u", "l", "d", " ", "C", "a", "r",
      "e", " ", "A", "b", "o", "u", "t">>

\* Style phrases and sentence template of generate_paragraph (src/main.py:104-116).
s_StyleProfessional ==
    <<"C", "l", "e", "a", "r", " ", "a", "n", "d", " ", "c", "o", "n", "c", "i", "s", "e">>
s_StyleFriendly ==
    <<"C", "o", "n", "v", "e", "r", "s", "a", "t", "i", "o", "n", "a", "l", " ", "a", "n", "d",
      " ", "a", "p", "p", "r", "o", "a", "c", "h", "a", "b", "l", "e">>
s_StyleTechnical ==
    <<"D", "e", "t", "a", "i", "l", "e", "d", " ", "a", "n", "d", " ", "p", "r", "e", "c", "i",
      "s", "e">>
s_StylePersuasive ==
    <<"B", "e", "n", "e", "f", "i", "t", "-", "o", "r", "i", "e", "n", "t", "e", "d", " ", "a",
      "n", "d", " ", "m", "o", "t", "i", "v", "a", "t", "i", "n", "g">>
s_CommaSpace == <<",", " ">>
s_For == <<" ", "f", "o", "r", " ">>
s_ColonSpace == <<":", " ">>
s_OverviewOf == <<" ", "o", "v", "e", "r", "v", "i", "e", "w", " ", "o", "f", " ">>
s_DotSpace == <<".", " ">>
s_Explores ==
    <<"T", "h", "i", "s", " ", "s", "e", "c", "t", "i", "o", "n", " ", "e", "x", "p", "l", "o",
      "r", "e", "s", " ", "k", "e", "y", " ", "i", "d", "e", "a", "s", ",", " ", "p", "r", "a",
      "c", "t", "i", "c", "a", "l", " ", "i", "n", "s", "i", "g", "h", "t", "s", ",", " ", "a",
      "n", "d", " ", "e", "x", "a", "m", "p", "l", "e", "s", ".", " ">>
s_KeywordsToFocusOn ==
    <<"K", "e", "y", "w", "o", "r", "d", "s", " ", "t", "o", " ", "f", "o", "c", "u", "s", " ",
      "o", "n", ":", " ">>
s_Dot == <<".">>

\* Markdown framing of generate_content (src/main.py:122-123).
s_H2 == <<"#", "#", " ">>
s_BlankLine == <<"\n", "\n">>
s_Newline == <<"\n">>

\* Values of generate_blog and BlogPost (src/main.py:130-135, src/schemas.py:55).
s_TopicCannotBeEmpty ==
    <<"T", "o", "p", "i", "c", " ", "c", "a", "n", "n", "o", "t", " ", "b", "e", " ", "e", "m",
      "p", "t", "y">>
s_short == <<"s", "h", "o", "r", "t">>
s_medium == <<"m", "e", "d", "i", "u", "m">>
s_long == <<"l", "o", "n", "g">>
s_generated == <<"g", "e", "n", "e", "r", "a", "t", "e", "d">>
\* ------------------------------------------------------ Python built-ins
None == [some |-> FALSE, v |-> <<>>]
Some(x) == [some |-> TRUE, v |-> x]

\* Truth value of an Optional[str] / Optional[List[str]]: None and the empty
\* value are falsy.
Truthy(opt) == opt.some /\ opt.v /= <<>>

\* `opt or default`.
OrElse(opt, default) == IF Truthy(opt) THEN opt.v ELSE default

Min(a, b) == IF a <= b THEN a ELSE b

\* Characters str.strip() removes when called without arguments.
Whitespace == {" ", "\t", "\n", "\r"}

RECURSIVE lstrip(_)
lstrip(s) ==
    IF s = <<>> THEN s
    ELSE IF Head(s) \in Whitespace THEN lstrip(Tail(s)) ELSE s

RECURSIVE rstrip(_)
rstrip(s) ==
    IF s = <<>> THEN s
    ELSE IF s[Len(s)] \in Whitespace THEN rstrip(SubSeq(s, 1, Len(s) - 1)) ELSE s

\* str.strip()
strip(s) == rstrip(lstrip(s))

Digits == <<"0", "1", "2", "3", "4", "5", "6", "7", "8", "9">>
UpperCase ==
    <<"A", "B", "C", "D", "E", "F", "G", "H", "I", "J", "K", "L", "M",
      "N", "O", "P", "Q", "R", "S", "T", "U", "V", "W", "X", "Y", "Z">>
LowerCase ==
    <<"a", "b", "c", "d", "e", "f", "g", "h", "i", "j", "k", "l", "m",
      "n", "o", "p", "q", "r", "s", "t", "u", "v", "w", "x", "y", "z">>

LowerChar(c) ==
    IF \E i \in DOMAIN UpperCase : UpperCase[i] = c
    THEN LowerCase[CHOOSE i \in DOMAIN UpperCase : UpperCase[i] = c]
    ELSE c

\* str.lower()
lower(s) == [i \in DOMAIN s |-> LowerChar(s[i])]

\* sep.join(parts)
RECURSIVE join(_, _)
join(sep, parts) ==
    IF parts = <<>> THEN <<>>
    ELSE IF Len(parts) = 1 THEN parts[1]
    ELSE parts[1] \o sep \o join(sep, Tail(parts))

\* str() of a non-negative integer.
RECURSIVE IntStr(_)
IntStr(n) == IF n < 10 THEN <<Digits[n + 1]>> ELSE IntStr(n \div 10) \o <<Digits[(n % 10) + 1]>>

\* ------------------------------------------------- content synthesizer
\* Variant of generate_outline: the short slice one entry too small (base[:3]).
generate_outline_off_by_one(topic, length) ==
    LET base == <<s_Introduction,
                  s_Why \o topic \o s_Matters,
                  s_KeyPrinciplesOf \o topic,
                  s_PracticalTipsFor \o topic,
                  s_CommonMistakes,
                  s_Conclusion>>
    IN  IF length = s_short THEN SubSeq(base, 1, 3)
        ELSE IF length = s_long
        THEN base \o <<s_CaseStudy \o topic \o s_InAction, s_Resources>>
        ELSE base

generate_outline(topic, length) ==
    LET base == <<s_Introduction,
                  s_Why \o topic \o s_Matters,
                  s_KeyPrinciplesOf \o topic,
                  s_PracticalTipsFor \o topic,
                  s_CommonMistakes,
                  s_Conclusion>>
    IN  IF length = s_short THEN SubSeq(base, 1, 4)
        ELSE IF length = s_long
        THEN base \o <<s_CaseStudy \o topic \o s_InAction, s_Resources>>
        ELSE base

generate_title(topic, tone) ==
    LET prefix ==
            IF tone = s_Professional THEN s_PrefixProfessional
            ELSE IF tone = s_Friendly THEN s_PrefixFriendly
            ELSE IF tone = s_Technical THEN s_PrefixTechnical
            ELSE IF tone = s_Persuasive THEN s_PrefixPersuasive
            ELSE s_PrefixProfessional
    IN  prefix \o <<" ">> \o topic

generate_paragraph(heading, topic, tone, audience, keywords) ==
    LET style ==
            IF tone = s_Professional THEN s_StyleProfessional
            ELSE IF tone = s_Friendly THEN s_StyleFriendly
            ELSE IF tone = s_Technical THEN s_StyleTechnical
            ELSE IF tone = s_Persuasive THEN s_StylePersuasive
            ELSE s_StyleProfessional
        kw == IF keywords /= <<>>
              THEN join(s_CommaSpace, SubSeq(keywords, 1, Min(3, Len(keywords))))
              ELSE topic
        aud == IF Truthy(audience) THEN s_For \o audience.v ELSE <<>>
    IN  heading \o s_ColonSpace \o style \o s_OverviewOf \o topic \o aud \o s_DotSpace
        \o s_Explores
        \o s_KeywordsToFocusOn \o kw \o s_Dot

generate_content(topic, tone, outline, audience, keywords) ==
    LET paragraphs ==
            [i \in DOMAIN outline |->
                s_H2 \o outline[i] \o s_BlankLine
                \o generate_paragraph(outline[i], topic, tone, audience, keywords)
                \o s_Newline]
    IN  join(s_Newline, paragraphs)

\* ---------------------------------------------------------- documents
\* Variant of BlogPost: another default status.
BlogPost_draft(title, topic, tone, keywords, outline, content, length, audience) ==
    [title |-> title, topic |-> topic, tone |-> tone, keywords |-> keywords,
     outline |-> outline, content |-> content, length |-> length,
     audience |-> audience, status |-> <<"d", "r", "a", "f", "t">>]

\* BlogPost(...) as generate_blog constructs it; status takes its default.
BlogPost(title, topic, tone, keywords, outline, content, length, audience) ==
    [title |-> title, topic |-> topic, tone |-> tone, keywords |-> keywords,
     outline |-> outline, content |-> content, length |-> length,
     audience |-> audience, status |-> s_generated]

\* A creation timestamp read from the clock.
Datetime(t) == [type |-> "datetime", v |-> t]
\* A created_at value that is text, not a datetime.
StrValue(s) == [type |-> "str", v |-> s]

\* datetime.min precedes every clock reading.
datetime_min == Datetime(0)

\* Record d extended (or overwritten) with field f = x.
WithField(d, f, x) == [g \in DOMAIN d \cup {f} |-> IF g = f THEN x ELSE d[g]]
\* Record d without field f.
WithoutField(d, f) == [g \in DOMAIN d \ {f} |-> d[g]]

\* create_document(collection, post): the stored document is the post plus
\* identity metadata (_id, created_at); the identifier is returned as text.
create_document(coll, post, t) ==
    LET oid == Len(coll) + 1
        doc == WithField(WithField(post, "_id", oid), "created_at", Datetime(t))
    IN  [id |-> IntStr(oid), coll |-> Append(coll, doc)]

\* get_documents(collection, {}, limit): every list of at most `limit`
\* documents the store may hand back; the retrieval order is the store's.
get_documents(coll, limit) ==
    LET k == Min(limit, Len(coll))
        picks == {p \in [1..k -> 1..Len(coll)] :
                     \A i, j \in 1..k : i /= j => p[i] /= p[j]}
    IN  {[i \in 1..k |-> coll[p[i]]] : p \in picks}

\* ------------------------------------------------------------ list.sort
CharOrder == Digits \o UpperCase \o LowerCase
Ord(c) == CHOOSE i \in DOMAIN CharOrder : CharOrder[i] = c

\* a < b on str
RECURSIVE str_lt(_, _)
str_lt(a, b) ==
    IF b = <<>> THEN FALSE
    ELSE IF a = <<>> THEN TRUE
    ELSE IF Head(a) = Head(b) THEN str_lt(Tail(a), Tail(b))
    ELSE Ord(Head(a)) < Ord(Head(b))

\* a < b raises TypeError unless both are datetimes or both are str.
comparable(a, b) == a.type = b.type
key_lt(a, b) == IF a.type = "datetime" THEN a.v < b.v ELSE str_lt(a.v, b.v)

Reverse(L) == [i \in DOMAIN L |-> L[Len(L) + 1 - i]]

\* Variant of sort_key: the default is later than every clock reading.
sort_key_max(d) == IF "created_at" \in DOMAIN d THEN d.created_at ELSE Datetime(MaxClock + 1)

\* key=lambda d: d.get("created_at", datetime.min)
sort_key(d) == IF "created_at" \in DOMAIN d THEN d.created_at ELSE datetime_min

\* count_run: the length of the run L starts with, -1 when a comparison
\* raises.  The run is descending when descending is TRUE.
RECURSIVE run_end(_, _, _)
run_end(L, i, descending) ==
    IF i > Len(L) THEN i - 1
    ELSE IF ~comparable(sort_key(L[i]), sort_key(L[i - 1])) THEN -1
    ELSE IF key_lt(sort_key(L[i]), sort_key(L[i - 1])) = descending
         THEN run_end(L, i + 1, descending)
         ELSE i - 1

count_run(L) ==
    IF Len(L) = 1 THEN [n |-> 1, descending |-> FALSE]
    ELSE IF ~comparable(sort_key(L[2]), sort_key(L[1])) THEN [n |-> -1, descending |-> FALSE]
    ELSE LET descending == key_lt(sort_key(L[2]), sort_key(L[1]))
         IN  [n |-> run_end(L, 3, descending), descending |-> descending]

\* The slot of L[1..r-1] the pivot goes to, 0 when a comparison raises.
RECURSIVE bisect(_, _, _, _)
bisect(L, pivot, l, r) ==
    IF l >= r THEN l
    ELSE LET p == l + ((r - l) \div 2)
         IN  IF ~comparable(sort_key(pivot), sort_key(L[p])) THEN 0
             ELSE IF key_lt(sort_key(pivot), sort_key(L[p]))
                  THEN bisect(L, pivot, l, p)
                  ELSE bisect(L, pivot, p + 1, r)

\* binarysort: L[1..start-1] is sorted; insert L[start..] one by one.  When a
\* comparison raises, the list stays as the insertions so far left it.
RECURSIVE binarysort(_, _)
binarysort(L, start) ==
    IF start > Len(L) THEN [ok |-> TRUE, list |-> L]
    ELSE LET l == bisect(L, L[start], 1, start)
         IN  IF l = 0 THEN [ok |-> FALSE, list |-> L]
             ELSE binarysort(SubSeq(L, 1, l - 1) \o <<L[start]>>
                                 \o SubSeq(L, l, start - 1)
                                 \o SubSeq(L, start + 1, Len(L)),
                             start + 1)

\* list.sort(key=sort_key, reverse=reverse) on a list shorter than 64
\* elements: reverse, find the leading run, binary-insert the rest, reverse.
\* ok is FALSE when a comparison raised; list is the list as sort left it.
list_sort(L, reverse) ==
    IF Len(L) < 2 THEN [ok |-> TRUE, list |-> L]
    ELSE LET R == IF reverse THEN Reverse(L) ELSE L
             run == count_run(R)
             res == IF run.n = -1 THEN [ok |-> FALSE, list |-> R]
                    ELSE binarysort(IF run.descending
                                    THEN Reverse(SubSeq(R, 1, run.n))
                                             \o SubSeq(R, run.n + 1, Len(R))
                                    ELSE R,
                                    run.n + 1)
         IN  [ok |-> res.ok, list |-> IF reverse THEN Reverse(res.list) ELSE res.list]

\* ------------------------------------------------------------- requests
\* GenerateRequest: topic and tone are str, the others Optional.
GenerateRequest(topic, tone, keywords, length, audience) ==
    [topic |-> topic, tone |-> tone, keywords |-> keywords, length |-> length,
     audience |-> audience]

HTTPException(status_code, detail) == [status |-> status_code, detail |-> detail]

\* Variant of topic_of: the topic is not stripped.
topic_unstripped(req) == req.topic

\* topic = req.topic.strip()
topic_of(req) == strip(req.topic)

\* tone = req.tone.strip() if req.tone else "Professional"
tone_of(req) == IF req.tone /= <<>> THEN strip(req.tone) ELSE s_Professional

\* Variant of length_of: no fallback for values outside the enum.
length_unchecked(req) == lower(OrElse(req.length, s_medium))

\* length = (req.length or "medium").lower(), "medium" unless an enum value
length_of(req) ==
    LET length == lower(OrElse(req.length, s_medium))
    IN  IF length \notin {s_short, s_medium, s_long} THEN s_medium ELSE length

\* keywords = [k.strip() for k in (req.keywords or []) if k.strip()]
RECURSIVE stripped_nonblank(_)
stripped_nonblank(ks) ==
    IF ks = <<>> THEN <<>>
    ELSE IF strip(Head(ks)) /= <<>>
         THEN <<strip(Head(ks))>> \o stripped_nonblank(Tail(ks))
         ELSE stripped_nonblank(Tail(ks))

keywords_of(req) == stripped_nonblank(OrElse(req.keywords, <<>>))

\* ------------------------------------------------------- POST /api/generate
generate_blog(req, cap) ==
    LET topic == topic_of(req)
        tone == tone_of(req)
        length == length_of(req)
        keywords == keywords_of(req)
        outline == generate_outline(topic, length)
        title == generate_title(topic, tone)
        content == generate_content(topic, tone, outline, req.audience, keywords)
        post == BlogPost(title, topic, tone, keywords, outline, content, length,
                         req.audience)
    IN  /\ request' = [op |-> "generate", body |-> req]
        /\ \/ /\ topic = <<>>
              /\ response' = HTTPException(400, s_TopicCannotBeEmpty)
              /\ UNCHANGED <<store, now, retrieved>>
           \/ /\ topic /= <<>>
              /\ Len(store) < cap
              \* t1: the reading create_document stamps on the document;
              \* t2: the handler's own datetime.utcnow(), read afterwards.
              /\ \E t1 \in now..MaxClock : \E t2 \in t1..MaxClock :
                    LET created == create_document(store, post, t1)
                    IN  /\ store' = created.coll
                        /\ now' = t1
                        /\ response' =
                              [status |-> 200,
                               body |-> [id |-> created.id, title |-> title,
                                         outline |-> outline, content |-> content,
                                         topic |-> topic, tone |-> tone,
                                         keywords |-> keywords, length |-> length,
                                         audience |-> req.audience,
                                         created_at |-> Datetime(t2)]]
              /\ UNCHANGED retrieved

\* ---------------------------------------------------------- GET /api/posts
\* Variant of fetch: limit is not passed on.
fetch_unlimited(coll, limit) == get_documents(coll, Len(coll))

\* docs = get_documents("blogpost", {}, limit=limit)
fetch(coll, limit) == get_documents(coll, limit)

\* Variant of sort_docs: reverse=True is missing.
sort_docs_ascending(docs) == list_sort(docs, FALSE).list

\* docs.sort(key=..., reverse=True) inside try/except: docs afterwards.
sort_docs(docs) == list_sort(docs, TRUE).list

\* d = dict(d); d["id"] = str(d.pop("_id"))
clean(d) ==
    IF "_id" \in DOMAIN d
    THEN WithField(WithoutField(d, "_id"), "id", IntStr(d._id))
    ELSE d

list_posts(limit) ==
    \E docs \in fetch(store, limit) :
        LET sorted == sort_docs(docs)
            cleaned == [i \in DOMAIN sorted |-> clean(sorted[i])]
        IN  /\ request' = [op |-> "list", limit |-> limit]
            /\ retrieved' = [i \in DOMAIN docs |-> docs[i]._id]
            /\ response' = [status |-> 200, body |-> cleaned]
            /\ UNCHANGED <<store, now>>

\* --------------------------------------------------------------- inputs
\* limit: int = 10
DefaultLimit == 10
Limits == (0..MaxLimit) \cup {DefaultLimit}

t_a == <<"a">>
t_multiline == <<"a", "\n", "#", "#", " ", "b">>
TopicInputs ==
    {<<>>, <<" ", "\t">>, t_a, <<" ", "a", "\n">>, <<"a", " ", "b">>, t_multiline}
BlankTopics == {t \in TopicInputs : strip(t) = <<>>}

s_Sarcastic == <<"S", "a", "r", "c", "a", "s", "t", "i", "c">>
ToneInputs == {<<>>, s_Professional, s_Friendly, <<" ">> \o s_Technical, s_Persuasive, s_Sarcastic}

LengthInputs ==
    {None, Some(<<>>), Some(s_short), Some(s_medium), Some(s_long),
     Some(<<"S", "H", "O", "R", "T">>), Some(<<"L", "o", "n", "g">>),
     Some(<<"h", "u", "g", "e">>), Some(s_short \o <<" ">>)}

KeywordInputs ==
    {None, Some(<<>>), Some(<<<<" ">>>>),
     Some(<<<<"k", "1">>, <<" ">>, <<" ", "k", "2", " ">>, <<"k", "3">>, <<"k", "4">>>>)}

AudienceInputs == {None, Some(<<>>), Some(<<"d", "e", "v", "s">>)}

\* Requests tried under Spec: the listing claims need only posts to list.
ReqsList ==
    {GenerateRequest(t, s_Friendly, None, Some(s_short), None) : t \in {<<>>, t_a}}

\* Requests tried under SpecGen: every non-blank topic with every length, and
\* each other field varied in turn, for a blank and for a non-blank topic.
t_blank == <<" ", "\t">>
ReqsGen ==
    {GenerateRequest(t, s_Professional, None, l, None) :
        t \in TopicInputs \ BlankTopics, l \in LengthInputs}
    \cup {GenerateRequest(t, s_Professional, None, l, None) :
            t \in BlankTopics, l \in {None, Some(s_long)}}
    \cup {GenerateRequest(t, tone, None, Some(s_medium), None) :
            t \in {t_blank, t_a}, tone \in ToneInputs}
    \cup {GenerateRequest(t, s_Professional, k, Some(s_short), None) :
            t \in {t_blank, t_a}, k \in KeywordInputs}
    \cup {GenerateRequest(t, s_Professional, None, Some(s_short), a) :
            t \in {t_blank, t_a}, a \in AudienceInputs}

\* Documents written to the collection before the service started: BlogPost
\* documents without created_at, or with a created_at that is text.
LegacyKinds == {"absent", "str"}
LegacyPost ==
    LET outline == generate_outline(t_a, s_short)
    IN  BlogPost(generate_title(t_a, s_Professional), t_a, s_Professional, <<>>, outline,
                 generate_content(t_a, s_Professional, outline, None, <<>>), s_short, None)
LegacyDoc(oid, kind) ==
    IF kind = "str"
    THEN WithField(WithField(LegacyPost, "_id", oid), "created_at",
                   StrValue(<<"2", "0", "2", "4">>))
    ELSE WithField(LegacyPost, "_id", oid)
LegacyStores ==
    UNION {{[i \in 1..n |-> LegacyDoc(i, kinds[i])] : kinds \in [1..n -> LegacyKinds]} :
              n \in 0..MaxLegacy}

\* ------------------------------------------------------- specifications
Init ==
    /\ store \in LegacyStores
    /\ now = 1
    /\ request = [op |-> "none"]
    /\ response = [status |-> 0]
    /\ retrieved = <<>>

Next ==
    \/ \E req \in ReqsList : generate_blog(req, MaxPosts)
    \/ \E limit \in Limits : list_posts(limit)

Spec == Init /\ [][Next]_vars

\* The synthesizer does not read the clock: under SpecGen it stays at its
\* latest reading.
InitGen ==
    /\ store = <<>>
    /\ now = MaxClock
    /\ request = [op |-> "none"]
    /\ response = [status |-> 0]
    /\ retrieved = <<>>

NextGen == \E req \in ReqsGen : generate_blog(req, MaxGenPosts)

SpecGen == InitGen /\ [][NextGen]_vars

\* Spec with room for one more document: list.sort leaves a list of four
\* in an order of its own when a comparison raises half-way.
NextWide ==
    \/ \E req \in ReqsList : generate_blog(req, MaxPosts + 1)
    \/ \E limit \in Limits : list_posts(limit)

SpecWide == Init /\ [][NextWide]_vars

\* ------------------------------------------------------- claim vocabulary
LengthEnum == {s_short, s_medium, s_long}

\* s is empty or whitespace only.
IsBlank(s) == \A i \in DOMAIN s : s[i] \in Whitespace

Generated == request.op = "generate" /\ response.status = 200
Listed == request.op = "list" /\ response.status = 200

\* The document the last successful generate_blog stored.
LastStored == store[Len(store)]

HasCreatedAt(d) == "created_at" \in DOMAIN d
HasTimestamp(d) == HasCreatedAt(d) /\ d.created_at.type = "datetime"

\* Identifiers of the listed records, in response order, and of the records
\* get_documents returned, in retrieval order.
ListedIds == [i \in DOMAIN response.body |-> response.body[i].id]
RetrievedIds == [i \in DOMAIN retrieved |-> IntStr(retrieved[i])]
\* The documents get_documents returned (a document's _id is its position).
RetrievedDocs == [i \in DOMAIN retrieved |-> store[retrieved[i]]]

\* Position of identifier id in the retrieval order.
RetrievedAt(id) == CHOOSE i \in DOMAIN retrieved : IntStr(retrieved[i]) = id

\* The Markdown "## " heading lines of a text, in order, without the marker.
HeadingLines(text) ==
    LET newlines == {i \in DOMAIN text : text[i] = "\n"}
        starts == {1} \cup {i + 1 : i \in newlines}
        marked == {p \in starts : /\ p + 2 <= Len(text)
                                   /\ text[p] = "#" /\ text[p + 1] = "#"
                                   /\ text[p + 2] = " "}
        lineEnd(p) == IF \E i \in newlines : i > p
                      THEN CHOOSE i \in newlines :
                               i > p /\ \A j \in newlines : j > p => i <= j
                      ELSE Len(text) + 1
        nth(k) == CHOOSE p \in marked : Cardinality({q \in marked : q < p}) = k - 1
    IN  [k \in 1..Cardinality(marked) |-> SubSeq(text, nth(k) + 3, lineEnd(nth(k)) - 1)]

\* The last heading an outline of the given length must have.
ExpectedLast(topic, length) ==
    IF length = s_short THEN s_PracticalTipsFor \o topic
    ELSE IF length = s_long THEN s_Resources
    ELSE s_Conclusion

ExpectedCount(length) ==
    IF length = s_short THEN 4 ELSE IF length = s_long THEN 8 ELSE 6

RawLengths == {l.v : l \in {x \in LengthInputs : x.some}}

\* ------------------------------------------------------------------- C1
\* C1: a generate request whose topic is empty or whitespace only is answered
\* with HTTP 400 "Topic cannot be empty" and leaves the collection as it
\* was, whatever the other request fields are.
C1_BlankTopicRejected ==
    [][(request'.op = "generate" /\ IsBlank(request'.body.topic))
          => /\ response' = [status |-> 400, detail |-> s_TopicCannotBeEmpty]
             /\ store' = store]_vars

\* A whitespace-only topic was rejected while the collection held a post.
C1_Witness ==
    /\ request.op = "generate"
    /\ request.body.topic /= <<>>
    /\ IsBlank(request.body.topic)
    /\ response.status = 400
    /\ store /= <<>>

C3_NewestFirst ==
    Listed =>
        LET b == response.body
        IN  (/\ \A i \in DOMAIN b : HasTimestamp(b[i])
             /\ \A i, j \in DOMAIN b : i /= j => b[i].created_at /= b[j].created_at)
            => \A i, j \in DOMAIN b : i < j => b[i].created_at.v > b[j].created_at.v

\* Two posts with distinct timestamps came back oldest first and were
\* listed newest first.
C3_Witness ==
    /\ Listed
    /\ Len(response.body) = 2
    /\ \A i \in DOMAIN response.body : HasTimestamp(response.body[i])
    /\ response.body[1].created_at.v > response.body[2].created_at.v
    /\ ListedIds = Reverse(RetrievedIds)

\* ------------------------------------------------------------------- C4
\* C4 as stated: the outline has 4, 6 or 8 entries for short, medium, long,
\* begins with "Introduction" and ends with a conclusion or resources
\* heading ("Resources & Next Steps" for long, "Conclusion" otherwise).
C4_EndsWithConclusion ==
    Generated =>
        LET o == response.body.outline
            l == response.body.length
        IN  /\ Len(o) = ExpectedCount(l)
            /\ o[1] = s_Introduction
            /\ o[Len(o)] = IF l = s_long THEN s_Resources ELSE s_Conclusion

\* C4 amended: the outline has 4, 6 or 8 entries for short, medium, long and
\* begins with "Introduction"; it ends with "Practical Tips for {topic}" for
\* short, "Resources & Next Steps" for long and "Conclusion" for medium and
\* for every other length value.
C4_OutlineShape ==
    Generated =>
        LET o == response.body.outline
            l == response.body.length
            topic == response.body.topic
        IN  /\ Len(o) = ExpectedCount(l)
            /\ o[1] = s_Introduction
            /\ o[Len(o)] = ExpectedLast(topic, l)
            /\ \A raw \in RawLengths :
                  LET g == generate_outline(topic, raw)
                  IN  /\ Len(g) = ExpectedCount(raw)
                      /\ g[1] = s_Introduction
                      /\ g[Len(g)] = ExpectedLast(topic, raw)

\* A short outline was generated: four entries, no conclusion.
C4_Witness ==
    /\ Generated
    /\ response.body.length = s_short
    /\ Len(response.body.outline) = 4
    /\ response.body.outline[4] /= s_Conclusion

\* ------------------------------------------------------------------- C5
\* C5: every stored BlogPost has a non-empty outline and a content made of
\* exactly one "## heading" block per outline entry, the i-th block carrying
\* the i-th outline heading.
C5_OneBlockPerHeading ==
    \A i \in DOMAIN store :
        /\ store[i].outline /= <<>>
        /\ HeadingLines(store[i].content) = store[i].outline

\* ------------------------------------------------------------------- C6
\* C6: when a comparison fails while list_posts sorts (two retrieved records
\* have created_at keys of different types), every retrieved record is
\* returned, in exactly the order get_documents returned them.
C6_FailedSortKeepsOrder ==
    (/\ Listed
     /\ \E i, j \in DOMAIN retrieved :
           ~comparable(sort_key(RetrievedDocs[i]), sort_key(RetrievedDocs[j])))
    => ListedIds = RetrievedIds

C8_AppendOnly ==
    [][/\ Len(store') >= Len(store)
       /\ SubSeq(store', 1, Len(store)) = store
       /\ request'.op = "list" => store' = store
       /\ (request'.op = "generate" /\ response'.status = 400) => store' = store
       /\ (request'.op = "generate" /\ response'.status = 200)
             => /\ Len(store') = Len(store) + 1
                /\ store'[Len(store')].status = s_generated
                /\ \A i \in DOMAIN store : store[i]._id /= store'[Len(store')]._id
                /\ response'.body.id = IntStr(store'[Len(store')]._id)]_vars

\* A post was appended to a collection that already held two records.
C8_Witness ==
    /\ Generated
    /\ Len(store) = 3
    /\ LastStored.status = s_generated
    /\ response.body.id = IntStr(LastStored._id)

\* ------------------------------------------------------------------- C9
\* C9 as stated: every length that is not one of short, medium, long is
\* stored as medium.
C9_NonEnumBecomesMedium ==
    (Generated /\ Truthy(request.body.length) /\ request.body.length.v \notin LengthEnum)
    => LastStored.length = s_medium

\* C9 amended: the stored and returned length is one of short, medium, long.
\* An absent or empty length gives medium; a value whose lower-case form is
\* an enum value gives that enum value; every other value gives medium.  The
\* outline is the one of the stored length.
C9_LengthNormalized ==
    Generated =>
        LET raw == request.body.length
            l == LastStored.length
        IN  /\ l \in LengthEnum
            /\ response.body.length = l
            /\ ~Truthy(raw) => l = s_medium
            /\ (Truthy(raw) /\ lower(raw.v) \in LengthEnum) => l = lower(raw.v)
            /\ (Truthy(raw) /\ lower(raw.v) \notin LengthEnum) => l = s_medium
            /\ Len(LastStored.outline) = ExpectedCount(l)
            /\ response.body.outline = LastStored.outline

\* A length that is no enum value in any letter case was stored as medium.
C9_Witness ==
    /\ Generated
    /\ Truthy(request.body.length)
    /\ lower(request.body.length.v) \notin LengthEnum
    /\ LastStored.length = s_medium
    /\ Len(LastStored.outline) = 6

\* ------------------------------------------------------------------ C10
\* C10: no stored post left out of a listing has a creation timestamp later
\* than a post that is in the listing.
C10_NewestKept ==
    Listed =>
        \A i \in DOMAIN store :
            (HasTimestamp(store[i]) /\ \A k \in DOMAIN retrieved : retrieved[k] /= store[i]._id)
            => \A j \in DOMAIN response.body :
                   HasTimestamp(response.body[j])
                   => store[i].created_at.v <= response.body[j].created_at.v

=============================================================================
